---- MODULE Spec2Model ----
(***************************************************************************)
(* The /readers REST API: an Express router, four promise-chained          *)
(* handlers over the Sequelize model Reader, and the MySQL table behind    *)
(* it.  A handler runs in two steps: the synchronous part issues one       *)
(* query (Reader.create / findAll / update / destroy) and returns; the     *)
(* .then callback runs once the store has executed the query and sends     *)
(* the response.  A rejected query has no callback (no .catch).            *)
(***************************************************************************)
EXTENDS Integers, FiniteSets, Sequences, TLC

\* ---------------------------------------------------------------- bounds
\* Largest id the AUTO_INCREMENT counter hands out, and the ids requests name.
MaxId == 2

\* ------------------------------------------------------------ data model
\* DataTypes.STRING is VARCHAR(255).
VARCHAR_LEN == 255

Ids == 1..MaxId
Names == {"Mia Corvere", "Lyra Silvertongue"}
Emails == {"mia@redchurch.com"}
\* A string of 256 characters: one more than the column holds.
LongStr == "xxxxxxxxxxxxxxxxxxxxxxxxxxxxxxxxxxxxxxxxxxxxxxxxxxxxxxxxxxxxxxxxxxxxxxxxxxxxxxxxxxxxxxxxxxxxxxxxxxxxxxxxxxxxxxxxxxxxxxxxxxxxxxxxxxxxxxxxxxxxxxxxxxxxxxxxxxxxxxxxxxxxxxxxxxxxxxxxxxxxxxxxxxxxxxxxxxxxxxxxxxxxxxxxxxxxxxxxxxxxxxxxxxxxxxxxxxxxxxxxxxxxxxxxxxxxxxxx"
\* SQL NULL in a column (a field the INSERT was given no value for).
NULL == "<NULL>"
\* updatedAt is a DATETIME of whole seconds, written by every INSERT and
\* UPDATE with the time of the query.  The one thing that reads it is the
\* UPDATE's test of whether a row changed, so a row keeps only whether its
\* updatedAt is the current second or an earlier one.
ThisSecond == "this second"
Earlier == "earlier"

\* JavaScript null: what findByPk resolves to when no row matches.
null == [null |-> TRUE]

Methods == {"POST", "GET", "PATCH", "DELETE", "PUT"}
Paths == {"/readers", "/readers/:id", "/books"}

\* The columns of the Readers table a request body can set.  createdAt is
\* written once by INSERT and read by no operation; it is left out.
schema == {"id", "name", "email"}

\* Request bodies (req.body after express.json()): any subset of the keys.
IdParts == {<<>>} \cup {[id |-> i] : i \in Ids}
\* name and email are columns of one type; the over-long value is sent as a
\* name, which is enough to reach the store's error.
NameParts == {<<>>} \cup {[name |-> n] : n \in Names \cup {LongStr}}
EmailParts == {<<>>} \cup {[email |-> e] : e \in Emails}
Bodies == {i @@ n @@ e : i \in IdParts, n \in NameParts, e \in EmailParts}

\* The slots a request can occupy; requests are served one at a time in
\* SeqSlots.
Slots == {1, 2}
SeqSlots == {1}

VARIABLES
  store,    \* the rows of the Readers table
  autoInc,  \* the table's AUTO_INCREMENT counter
  conn,     \* per slot: the request being served and how far it has got
  req,      \* per slot: the request line (method and path) last received
  boot,     \* the process's Sequelize handle and its schema sync
  dbs,      \* the MySQL server's databases
  proc,     \* the database script that is running, if any
  suite     \* the mocha run of tests/readers.test.js, if any

\* What the request handlers never touch.
env == <<boot, dbs, proc, suite>>

vars == <<store, autoInc, conn, req, boot, dbs, proc, suite>>

\* ------------------------------------------------------------------ JSON
JObject(o) == [kind |-> "object", val |-> o]
JArray(a) == [kind |-> "array", val |-> a]
JNumber(n) == [kind |-> "number", val |-> n]
JHtml(t) == [kind |-> "html", val |-> t]
NoBody == [kind |-> "empty"]
NoRes == [status |-> 0, sent |-> NoBody, body |-> NoBody]

NotFoundError == JObject([error |-> "The reader does not exist."])

\* res.status(code).json(obj): Express serialises obj, and for a 204
\* (or 304) status strips the payload before writing the response.
ResJson(code, obj) ==
  [status |-> code, sent |-> obj,
   body |-> IF code \in {204, 304} THEN NoBody ELSE obj]

\* ----------------------------------------------------------------- store
Exists(st, id) == \E r \in st : r.id = id

\* Reader.findByPk(id, { raw: true })
FindByPk(st, id) ==
  IF Exists(st, id) THEN CHOOSE r \in st : r.id = id ELSE null

TooLong(v) == Len(v) > VARCHAR_LEN

Max(a, b) == IF a >= b THEN a ELSE b

Rejected(st, ai, why) ==
  [ok |-> FALSE, error |-> why, store |-> st, autoInc |-> ai,
   count |-> 0, rows |-> {}]
Resolved(st, ai, n, rs) ==
  [ok |-> TRUE, error |-> "", store |-> st, autoInc |-> ai,
   count |-> n, rows |-> rs]

Restrict(f, K) == [k \in (DOMAIN f) \cap K |-> f[k]]

\* The value a column gets from a body: the body's, or NULL when the key is
\* missing (the schema sets no default and allows NULL).
Column(body, k) == IF k \in DOMAIN body THEN body[k] ELSE NULL

\* Mutant of ReaderCreate: the table has no primary key on id.
ReaderCreateNoKey(st, ai, body) ==
  LET id == IF "id" \in DOMAIN body THEN body.id ELSE ai
      row == [id |-> id, name |-> Column(body, "name"),
              email |-> Column(body, "email"), updatedAt |-> ThisSecond]
      instance == Restrict(body, {"name", "email"}) @@ [id |-> id]
  IN IF TooLong(row.name) \/ TooLong(row.email)
       THEN Rejected(st, ai, "ER_DATA_TOO_LONG")
     ELSE [Resolved(st \cup {row}, Max(ai, id + 1), 1, {row})
             EXCEPT !.rows = instance]

\* Mutant of ReaderCreate: the email column is declared unique.
ReaderCreateUniqueEmail(st, ai, body) ==
  LET id == IF "id" \in DOMAIN body THEN body.id ELSE ai
      row == [id |-> id, name |-> Column(body, "name"),
              email |-> Column(body, "email"), updatedAt |-> ThisSecond]
      instance == Restrict(body, {"name", "email"}) @@ [id |-> id]
  IN IF TooLong(row.name) \/ TooLong(row.email)
       THEN Rejected(st, ai, "ER_DATA_TOO_LONG")
     ELSE IF Exists(st, id) \/ (\E r \in st : r.email = row.email /\ row.email # NULL)
       THEN Rejected(st, ai, "ER_DUP_ENTRY")
     ELSE [Resolved(st \cup {row}, Max(ai, id + 1), 1, {row})
             EXCEPT !.rows = instance]

\* Mutant of ReaderCreate: the INSERT leaves the email column out.
ReaderCreateNoEmail(st, ai, body) ==
  LET id == IF "id" \in DOMAIN body THEN body.id ELSE ai
      row == [id |-> id, name |-> Column(body, "name"),
              email |-> NULL, updatedAt |-> ThisSecond]
      instance == Restrict(body, {"name", "email"}) @@ [id |-> id]
  IN IF TooLong(row.name)
       THEN Rejected(st, ai, "ER_DATA_TOO_LONG")
     ELSE IF Exists(st, id)
       THEN Rejected(st, ai, "ER_DUP_ENTRY")
     ELSE [Resolved(st \cup {row}, Max(ai, id + 1), 1, {row})
             EXCEPT !.rows = instance]

\* Reader.create(body): INSERT INTO Readers.  The id is the body's when it
\* carries one, otherwise the AUTO_INCREMENT counter's; the counter moves
\* past every id inserted.  The server is in strict mode (the default of the
\* mysql image): a value longer than the column is an error, not truncated.
\* Resolves with the new instance (the values it was built from plus id).
ReaderCreate(st, ai, body) ==
  LET id == IF "id" \in DOMAIN body THEN body.id ELSE ai
      row == [id |-> id, name |-> Column(body, "name"),
              email |-> Column(body, "email"), updatedAt |-> ThisSecond]
      instance == Restrict(body, {"name", "email"}) @@ [id |-> id]
  IN IF TooLong(row.name) \/ TooLong(row.email)
       THEN Rejected(st, ai, "ER_DATA_TOO_LONG")
     ELSE IF Exists(st, id)
       THEN Rejected(st, ai, "ER_DUP_ENTRY")
     ELSE [Resolved(st \cup {row}, Max(ai, id + 1), 1, {row})
             EXCEPT !.rows = instance]

\* Mutant of ReaderFindAll: findOne() in place of findAll().
ReaderFindOne(st, ai) ==
  LET first == IF st = {} THEN {} ELSE {CHOOSE r \in st : \A o \in st : r.id <= o.id}
  IN Resolved(st, ai, Cardinality(first), first)

\* Mutant of ReaderFindAll: the rows read are removed from the table.
ReaderFindAllDraining(st, ai) == Resolved({}, ai, Cardinality(st), st)

\* Reader.findAll(): SELECT * FROM Readers.
ReaderFindAll(st, ai) == Resolved(st, ai, Cardinality(st), st)

\* The row an UPDATE ... SET <body's columns>, updatedAt = <now> writes over r.
Assign(r, body) ==
  [id |-> IF "id" \in DOMAIN body THEN body.id ELSE r.id,
   name |-> IF "name" \in DOMAIN body THEN body.name ELSE r.name,
   email |-> IF "email" \in DOMAIN body THEN body.email ELSE r.email,
   updatedAt |-> ThisSecond]

\* Mutant of ReaderUpdate: the where clause does not select by id.
ReaderUpdateEveryRow(st, ai, id, body) ==
  LET fields == (DOMAIN body) \cap schema
      matched == st
      changed == {r \in matched : Assign(r, body) # r}
      written == {Assign(r, body) : r \in matched}
      top == IF "id" \in fields /\ matched # {} THEN body.id + 1 ELSE ai
  IN IF fields = {}
       THEN Resolved(st, ai, 0, {})
     ELSE IF \E r \in matched : TooLong(Assign(r, body).name)
                               \/ TooLong(Assign(r, body).email)
       THEN Rejected(st, ai, "ER_DATA_TOO_LONG")
     ELSE IF "id" \in fields /\ Cardinality(matched) > 1
       THEN Rejected(st, ai, "ER_DUP_ENTRY")
     ELSE Resolved(written, Max(ai, top), Cardinality(changed), {})

\* Mutant of ReaderUpdate: the table is left holding the written rows only.
ReaderUpdateOnlyWritten(st, ai, id, body) ==
  LET fields == (DOMAIN body) \cap schema
      matched == {r \in st : r.id = id}
      changed == {r \in matched : Assign(r, body) # r}
      written == {Assign(r, body) : r \in matched}
      top == IF "id" \in fields /\ matched # {} THEN body.id + 1 ELSE ai
  IN IF fields = {}
       THEN Resolved(st, ai, 0, {})
     ELSE IF \E r \in matched : TooLong(Assign(r, body).name)
                               \/ TooLong(Assign(r, body).email)
       THEN Rejected(st, ai, "ER_DATA_TOO_LONG")
     ELSE IF \E r \in matched : \E o \in st \ matched : o.id = Assign(r, body).id
       THEN Rejected(st, ai, "ER_DUP_ENTRY")
     ELSE IF matched = {}
       THEN Resolved(st, ai, 0, {})
     ELSE Resolved(written, Max(ai, top), Cardinality(changed), {})

\* Reader.update(body, { where: { id } }).  Sequelize adds updatedAt to the
\* values and, when nothing but updatedAt would be set, resolves [0] without
\* sending a query.  Otherwise UPDATE Readers SET ... WHERE id = <id>; the
\* connection is opened without FOUND_ROWS, so the count MySQL reports is of
\* the rows whose stored values changed, not of the rows matched.
ReaderUpdate(st, ai, id, body) ==
  LET fields == (DOMAIN body) \cap schema
      matched == {r \in st : r.id = id}
      changed == {r \in matched : Assign(r, body) # r}
      written == {Assign(r, body) : r \in matched}
      top == IF "id" \in fields /\ matched # {} THEN body.id + 1 ELSE ai
  IN IF fields = {}
       THEN Resolved(st, ai, 0, {})
     ELSE IF \E r \in matched : TooLong(Assign(r, body).name)
                               \/ TooLong(Assign(r, body).email)
       THEN Rejected(st, ai, "ER_DATA_TOO_LONG")
     ELSE IF \E r \in matched : \E o \in st \ matched : o.id = Assign(r, body).id
       THEN Rejected(st, ai, "ER_DUP_ENTRY")
     ELSE Resolved((st \ matched) \cup written, Max(ai, top),
                   Cardinality(changed), {})

\* Mutant of ReaderDestroy: the where clause does not select by id.
ReaderDestroyEveryRow(st, ai, id) ==
  IF Exists(st, id) THEN Resolved({}, ai, Cardinality(st), {})
  ELSE Resolved(st, ai, 0, {})

\* Reader.destroy({ where: { id } }): DELETE FROM Readers WHERE id = <id>.
ReaderDestroy(st, ai, id) ==
  LET matched == {r \in st : r.id = id}
  IN Resolved(st \ matched, ai, Cardinality(matched), {})

\* ---------------------------------------------------------------- router
\* Mutant of Route: PUT is bound to update as well as PATCH.
RoutePutToo(method, path) ==
  CASE method = "POST" /\ path = "/readers" -> "create"
    [] method = "GET" /\ path = "/readers" -> "list"
    [] method \in {"PATCH", "PUT"} /\ path = "/readers/:id" -> "update"
    [] method = "DELETE" /\ path = "/readers/:id" -> "deleteReader"
    [] OTHER -> "none"

\* app.post / app.get / app.patch / app.delete: the handler bound to a
\* method and path, "none" when no route matches.
Route(method, path) ==
  CASE method = "POST" /\ path = "/readers" -> "create"
    [] method = "GET" /\ path = "/readers" -> "list"
    [] method = "PATCH" /\ path = "/readers/:id" -> "update"
    [] method = "DELETE" /\ path = "/readers/:id" -> "deleteReader"
    [] OTHER -> "none"

\* -------------------------------------------------------------- requests
Idle ==
  [phase |-> "idle", handler |-> "none", id |-> 0, body |-> <<>>,
   calls |-> <<>>, found |-> FALSE, value |-> 0,
   res |-> NoRes, responses |-> 0, fault |-> "none"]

\* A handler has issued its query and returned; the promise is pending.
\* calls lists the operations the handler has asked of the Reader model.
Pending(h, id, body) ==
  [phase |-> "pending", handler |-> h, id |-> id, body |-> body,
   calls |-> <<>>, found |-> FALSE, value |-> 0,
   res |-> NoRes, responses |-> 0, fault |-> "none"]

\* Mutant of Failed: the handlers have a .catch that answers 500.
FailedCaught(h) ==
  [phase |-> "rejected", handler |-> h, id |-> 0, body |-> <<>>,
   calls |-> <<>>, found |-> FALSE, value |-> 0,
   res |-> ResJson(500, JObject([error |-> "Internal Server Error"])),
   responses |-> 1, fault |-> "none"]

\* The promise was rejected.  The handlers chain .then only and do not
\* return the promise, so no callback of the application or of Express
\* sees the error: it is an unhandled rejection of the runtime, and nothing
\* of the request is used again.
Failed(h) ==
  [phase |-> "rejected", handler |-> h, id |-> 0, body |-> <<>>,
   calls |-> <<>>, found |-> FALSE, value |-> 0,
   res |-> NoRes, responses |-> 0, fault |-> "unhandledRejection"]

\* A slot takes a new request once the last one has been answered, or was
\* left without an answer (the transport abandons the connection).
Free(s) == conn[s].phase \in {"idle", "responded", "rejected"}

\* ------------------------------------------------------------ surroundings
\* DB_NAME in the two dotenv files: .env and .env.test.
DotEnv ==
  [file \in {".env", ".env.test"} |->
     IF file = ".env" THEN "book_library_mysql" ELSE "book_library_mysql_test"]

DbNames == {DotEnv[file] : file \in DOMAIN DotEnv}

\* A variable the process environment does not hold.
Unset == "<unset>"

\* models/index.js after setupDatabase() and after its sync has finished:
\* one Sequelize handle, the Readers table in place.
Ready == [handles |-> 1, sync |-> "done", table |-> TRUE]

\* No database script is running.
NoProc ==
  [script |-> "none", args |-> "", inherited |-> Unset, DB_NAME |-> Unset,
   at |-> "idle", err |-> "none", logs |-> <<>>, closed |-> 0,
   exit |-> "none"]

\* mocha is not running.
NoSuite ==
  [stage |-> "off", test |-> 0, left |-> {}, todo |-> {}, first |-> 0,
   logs |-> 0]

\* The surroundings of a process that is serving requests: the database of
\* .env exists and holds the synced Readers table, no script and no test
\* run is under way.
Serving ==
  /\ boot = Ready
  /\ dbs = [n \in DbNames |-> IF n = DotEnv[".env"] THEN "tables" ELSE "absent"]
  /\ proc = NoProc
  /\ suite = NoSuite

Init ==
  /\ store = {}
  /\ autoInc = 1
  /\ conn = [s \in Slots |-> Idle]
  /\ req = [s \in Slots |-> [method |-> "", path |-> ""]]
  /\ Serving

\* ------------------------------------------------- handlers, first half
create(s, body) ==
  /\ Free(s)
  /\ "id" \in DOMAIN body \/ autoInc <= MaxId
  /\ conn' = [conn EXCEPT ![s] = [Pending("create", 0, body) EXCEPT !.calls = <<"Reader.create">>]]
  /\ UNCHANGED <<store, autoInc, env>>

list(s) ==
  /\ Free(s)
  /\ conn' = [conn EXCEPT ![s] = [Pending("list", 0, <<>>) EXCEPT !.calls = <<"Reader.findAll">>]]
  /\ UNCHANGED <<store, autoInc, env>>

\* Mutant of update: the handler looks the reader up before it updates.
updateReadFirst(s, id, body) ==
  /\ Free(s)
  /\ conn' = [conn EXCEPT ![s] =
       [Pending("update", id, body)
          EXCEPT !.calls = <<"Reader.findByPk", "Reader.update">>]]
  /\ UNCHANGED <<store, autoInc, env>>

update(s, id, body) ==
  /\ Free(s)
  /\ conn' = [conn EXCEPT ![s] = [Pending("update", id, body) EXCEPT !.calls = <<"Reader.update">>]]
  /\ UNCHANGED <<store, autoInc, env>>

deleteReader(s, id) ==
  /\ Free(s)
  /\ conn' = [conn EXCEPT ![s] = [Pending("deleteReader", id, <<>>) EXCEPT !.calls = <<"Reader.destroy">>]]
  /\ UNCHANGED <<store, autoInc, env>>

\* No route matches: Express's final handler answers 404 itself.
Unmatched(s, method, path) ==
  /\ Free(s)
  /\ Route(method, path) = "none"
  /\ conn' = [conn EXCEPT ![s] =
       [Idle EXCEPT !.phase = "responded", !.responses = 1,
                    !.res = [status |-> 404, sent |-> JHtml("Cannot " \o method \o " " \o path),
                             body |-> JHtml("Cannot " \o method \o " " \o path)]]]
  /\ UNCHANGED <<store, autoInc, env>>

\* ------------------------------------------------- the store runs a query
\* The promise settles: resolved with the query's value, or rejected with
\* the store's error.
Settle(s, q, found, value) ==
  /\ store' = q.store
  /\ autoInc' = q.autoInc
  /\ conn' = [conn EXCEPT ![s] =
       IF q.ok
         THEN [@ EXCEPT !.phase = "resolved", !.found = found, !.value = value]
         ELSE Failed(conn[s].handler)]
  /\ UNCHANGED <<req, env>>

ExecCreate(s) ==
  /\ conn[s].phase = "pending" /\ conn[s].handler = "create"
  /\ "id" \in DOMAIN conn[s].body \/ autoInc <= MaxId
  /\ LET q == ReaderCreate(store, autoInc, conn[s].body)
     IN Settle(s, q, FALSE, q.rows)

ExecFindAll(s) ==
  /\ conn[s].phase = "pending" /\ conn[s].handler = "list"
  /\ LET q == ReaderFindAll(store, autoInc)
     IN Settle(s, q, FALSE, q.rows)

ExecUpdate(s) ==
  /\ conn[s].phase = "pending" /\ conn[s].handler = "update"
  /\ LET q == ReaderUpdate(store, autoInc, conn[s].id, conn[s].body)
     IN Settle(s, q, Exists(store, conn[s].id), <<q.count>>)

ExecDestroy(s) ==
  /\ conn[s].phase = "pending" /\ conn[s].handler = "deleteReader"
  /\ LET q == ReaderDestroy(store, autoInc, conn[s].id)
     IN Settle(s, q, Exists(store, conn[s].id), q.count)

\* The store is unreachable: the query fails and the promise is rejected.
\* (An update that sets nothing sends no query, so it cannot fail this way.)
StoreDown(s) ==
  /\ conn[s].phase = "pending"
  /\ ~(conn[s].handler = "update" /\ (DOMAIN conn[s].body) \cap schema = {})
  /\ conn' = [conn EXCEPT ![s] = Failed(conn[s].handler)]
  /\ UNCHANGED <<store, autoInc, req, env>>

\* ------------------------------------------------ handlers, .then callback
Respond(s, res) ==
  /\ conn' = [conn EXCEPT ![s].phase = "responded", ![s].res = res,
                          ![s].responses = @ + 1]
  /\ UNCHANGED <<store, autoInc, req, env>>

\* Mutant of createThen: 200 in place of 201.
createThenOk(s) ==
  /\ conn[s].phase = "resolved" /\ conn[s].handler = "create"
  /\ Respond(s, ResJson(200, JObject(conn[s].value)))

createThen(s) ==
  /\ conn[s].phase = "resolved" /\ conn[s].handler = "create"
  /\ Respond(s, ResJson(201, JObject(conn[s].value)))

listThen(s) ==
  /\ conn[s].phase = "resolved" /\ conn[s].handler = "list"
  /\ Respond(s, ResJson(200, JArray(conn[s].value)))

\* Mutant of updateThen: the count is sent back without the test for 0.
updateThenUnchecked(s) ==
  /\ conn[s].phase = "resolved" /\ conn[s].handler = "update"
  /\ Respond(s, ResJson(200, JArray(<<conn[s].value[1]>>)))

\* Mutant of updateThen: the callback answers only when no row was updated.
updateThenSilent(s) ==
  /\ conn[s].phase = "resolved" /\ conn[s].handler = "update"
  /\ LET numOfRowsUpdated == conn[s].value[1]
     IN /\ numOfRowsUpdated = 0
        /\ Respond(s, ResJson(404, NotFoundError))

updateThen(s) ==
  /\ conn[s].phase = "resolved" /\ conn[s].handler = "update"
  /\ LET numOfRowsUpdated == conn[s].value[1]
     IN IF numOfRowsUpdated = 0
          THEN Respond(s, ResJson(404, NotFoundError))
          ELSE Respond(s, ResJson(200, JArray(<<numOfRowsUpdated>>)))

\* Mutant of deleteReaderThen: the count is sent back without the test for 0.
deleteReaderThenUnchecked(s) ==
  /\ conn[s].phase = "resolved" /\ conn[s].handler = "deleteReader"
  /\ Respond(s, ResJson(204, JNumber(conn[s].value)))

\* Mutant of deleteReaderThen: 200 in place of 204 on success.
deleteReaderThenOk(s) ==
  /\ conn[s].phase = "resolved" /\ conn[s].handler = "deleteReader"
  /\ LET numOfRowsDeleted == conn[s].value
     IN IF numOfRowsDeleted = 0
          THEN Respond(s, ResJson(404, NotFoundError))
          ELSE Respond(s, ResJson(200, JNumber(numOfRowsDeleted)))

deleteReaderThen(s) ==
  /\ conn[s].phase = "resolved" /\ conn[s].handler = "deleteReader"
  /\ LET numOfRowsDeleted == conn[s].value
     IN IF numOfRowsDeleted = 0
          THEN Respond(s, ResJson(404, NotFoundError))
          ELSE Respond(s, ResJson(204, JNumber(numOfRowsDeleted)))

\* A second passes: no row's updatedAt is the current second any more.
Tick ==
  /\ \E r \in store : r.updatedAt = ThisSecond
  /\ store' = {[r EXCEPT !.updatedAt = Earlier] : r \in store}
  /\ UNCHANGED <<autoInc, conn, req, env>>

\* ------------------------------------------------------------------ next
\* The request line a slot has received.
Line(s, method, path) ==
  req' = [req EXCEPT ![s] = [method |-> method, path |-> path]]

\* The router takes a request line and hands the request to the handler
\* bound to it.
Receive(s) ==
  \E method \in Methods, path \in Paths :
    \/ Route(method, path) = "create" /\ Line(s, method, path)
         /\ \E body \in Bodies : create(s, body)
    \/ Route(method, path) = "list" /\ Line(s, method, path) /\ list(s)
    \/ Route(method, path) = "update" /\ Line(s, method, path)
         /\ \E id \in Ids, body \in Bodies : update(s, id, body)
    \/ Route(method, path) = "deleteReader" /\ Line(s, method, path)
         /\ \E id \in Ids : deleteReader(s, id)
    \/ Line(s, method, path) /\ Unmatched(s, method, path)

Next ==
  \/ Tick
  \/ \E s \in SeqSlots : Receive(s)
  \/ \E s \in SeqSlots : ExecCreate(s)
  \/ \E s \in SeqSlots : ExecFindAll(s)
  \/ \E s \in SeqSlots : ExecUpdate(s)
  \/ \E s \in SeqSlots : ExecDestroy(s)
  \/ \E s \in SeqSlots : StoreDown(s)
  \/ \E s \in SeqSlots : createThen(s)
  \/ \E s \in SeqSlots : listThen(s)
  \/ \E s \in SeqSlots : updateThen(s)
  \/ \E s \in SeqSlots : deleteReaderThen(s)

Spec == Init /\ [][Next]_vars

\* --------------------------------------------------- two requests at once
\* Node serves a second request while the first one's query is in flight:
\* each handler returns when it has issued its query, the store runs the
\* queries one at a time in either order, and each callback runs once its
\* own promise has resolved. Two slots, each serving one request, over a
\* table that already holds one Reader.
TwoBodies ==
  {b \in Bodies : /\ "email" \notin DOMAIN b
                  /\ "name" \in DOMAIN b => b.name \in Names
                  /\ "id" \in DOMAIN b => b.id = 1}

TwoInit ==
  /\ \E u \in {ThisSecond, Earlier} :
       store = {[id |-> 1, name |-> "Mia Corvere",
                 email |-> "mia@redchurch.com", updatedAt |-> u]}
  /\ autoInc = 2
  /\ conn = [s \in Slots |-> Idle]
  /\ req = [s \in Slots |-> [method |-> "", path |-> ""]]
  /\ Serving

TwoReceive(s) ==
  /\ conn[s].phase = "idle"
  /\ \E method \in Methods, path \in Paths :
       \/ Route(method, path) = "create" /\ Line(s, method, path)
            /\ \E body \in TwoBodies : create(s, body)
       \/ Route(method, path) = "list" /\ Line(s, method, path) /\ list(s)
       \/ Route(method, path) = "update" /\ Line(s, method, path)
            /\ \E id \in Ids, body \in TwoBodies : update(s, id, body)
       \/ Route(method, path) = "deleteReader" /\ Line(s, method, path)
            /\ \E id \in Ids : deleteReader(s, id)
       \/ Line(s, method, path) /\ Unmatched(s, method, path)

TwoNext ==
  \/ Tick
  \/ \E s \in Slots : TwoReceive(s)
  \/ \E s \in Slots : ExecCreate(s)
  \/ \E s \in Slots : ExecFindAll(s)
  \/ \E s \in Slots : ExecUpdate(s)
  \/ \E s \in Slots : ExecDestroy(s)
  \/ \E s \in Slots : StoreDown(s)
  \/ \E s \in Slots : createThen(s)
  \/ \E s \in Slots : listThen(s)
  \/ \E s \in Slots : updateThen(s)
  \/ \E s \in Slots : deleteReaderThen(s)

SpecTwo == TwoInit /\ [][TwoNext]_vars

\* The event loop runs the callback of every promise that has resolved.
Callbacks(s) ==
  createThen(s) \/ listThen(s) \/ updateThen(s) \/ deleteReaderThen(s)

\* How far each slot's request has got; every callback moves it.
Phases == [s \in Slots |-> conn[s].phase]

FairTwo == SpecTwo /\ \A s \in Slots : WF_Phases(Callbacks(s))

\* ------------------------------------------------------ database scripts
\* scripts/create-database.js and scripts/drop-database.js: node processes
\* that npm runs before start, before test and after test.  Each loads a
\* dotenv file, opens a mysql2 connection, sends one statement and closes
\* the connection in the statement's callback.

\* process.argv.slice(2)[0]; "" when the script is given no argument.
Argvs == {"", "test", "production"}

\* DB_NAME as the process inherits it from its parent: not set, or set.
Inherited == {Unset} \cup DbNames

envFile(args) == IF args = "test" THEN ".env.test" ELSE ".env"

\* require("dotenv").config({ path }) followed by the read of
\* process.env.DB_NAME: dotenv sets a variable only when the environment
\* does not hold it already.
config(inherited, file) ==
  IF inherited # Unset THEN inherited ELSE DotEnv[file]

\* Mutant of CreateDatabaseIfNotExists: DROP DATABASE IF EXISTS comes first.
CreateDatabaseAnew(d, name) ==
  [dbs |-> [d EXCEPT ![name] = "empty"], err |-> "none"]

\* CREATE DATABASE IF NOT EXISTS <name>: an existing database is left alone
\* and reported as a warning, not an error.
CreateDatabaseIfNotExists(d, name) ==
  [dbs |-> IF d[name] = "absent" THEN [d EXCEPT ![name] = "empty"] ELSE d,
   err |-> "none"]

\* DROP DATABASE <name>: an error when there is no such database.
DropDatabase(d, name) ==
  IF d[name] = "absent"
    THEN [dbs |-> d, err |-> "ER_DB_DROP_EXISTS"]
    ELSE [dbs |-> [d EXCEPT ![name] = "absent"], err |-> "none"]

\* Everything a script leaves alone.
Served == <<store, autoInc, conn, req, boot, suite>>

\* The script has loaded its configuration and queued its statement.
Started(script, args, inherited, name) ==
  [NoProc EXCEPT !.script = script, !.args = args, !.inherited = inherited,
                 !.DB_NAME = name, !.at = "query", !.exit = "running"]

\* node scripts/create-database.js [args]
createDatabase(args, inherited) ==
  /\ proc.at \in {"idle", "exited"}
  /\ proc' = Started("create-database", args, inherited,
                     config(inherited, envFile(args)))
  /\ UNCHANGED <<dbs, Served>>

\* node scripts/drop-database.js [args]
dropDatabase(args, inherited) ==
  /\ proc.at \in {"idle", "exited"}
  /\ proc' = Started("drop-database", args, inherited,
                     config(inherited, ".env.test"))
  /\ UNCHANGED <<dbs, Served>>

\* The server has run the statement (or could not be reached).
Queried(q) ==
  /\ dbs' = q.dbs
  /\ proc' = [proc EXCEPT !.at = "callback", !.err = q.err]
  /\ UNCHANGED Served

createDatabaseQuery ==
  /\ proc.script = "create-database" /\ proc.at = "query"
  /\ Queried(CreateDatabaseIfNotExists(dbs, proc.DB_NAME))

dropDatabaseQuery ==
  /\ proc.script = "drop-database" /\ proc.at = "query"
  /\ Queried(DropDatabase(dbs, proc.DB_NAME))

\* Wrong host, port or password, or the server is down: the connection
\* fails and mysql2 hands the error to the queued statement's callback.
ConnectFails ==
  /\ proc.at = "query"
  /\ Queried([dbs |-> dbs, err |-> "ECONNREFUSED"])

\* Mutant of createDatabaseCallback: the connection is closed on the
\* success path only.
createDatabaseCallbackElse ==
  /\ proc.script = "create-database" /\ proc.at = "callback"
  /\ proc' = [proc EXCEPT
       !.logs = IF proc.err # "none"
                  THEN <<"hint", "Environment Variables are:", proc.err>>
                  ELSE <<>>,
       !.closed = IF proc.err # "none" THEN @ ELSE @ + 1,
       !.at = IF proc.err # "none" THEN "callback returned" ELSE "exited",
       !.exit = IF proc.err # "none" THEN "running" ELSE "clean"]
  /\ UNCHANGED <<dbs, Served>>

\* (err) => { if (err) { console.log x 3 } connection.close(); }
createDatabaseCallback ==
  /\ proc.script = "create-database" /\ proc.at = "callback"
  /\ proc' = [proc EXCEPT
       !.logs = IF proc.err # "none"
                  THEN <<"hint", "Environment Variables are:", proc.err>>
                  ELSE <<>>,
       !.closed = @ + 1,
       !.at = "exited",
       !.exit = "clean"]
  /\ UNCHANGED <<dbs, Served>>

\* Mutant of dropDatabaseCallback: (err) => { if (err) throw err; ... }
dropDatabaseCallbackThrows ==
  /\ proc.script = "drop-database" /\ proc.at = "callback"
  /\ proc' = [proc EXCEPT
       !.closed = IF proc.err # "none" THEN @ ELSE @ + 1,
       !.at = "exited",
       !.exit = IF proc.err # "none" THEN "uncaughtException" ELSE "clean"]
  /\ UNCHANGED <<dbs, Served>>

\* () => connection.end()
dropDatabaseCallback ==
  /\ proc.script = "drop-database" /\ proc.at = "callback"
  /\ proc' = [proc EXCEPT !.closed = @ + 1, !.at = "exited", !.exit = "clean"]
  /\ UNCHANGED <<dbs, Served>>

\* An application started on database n syncs its models: the database now
\* holds tables.
SyncTables(n) ==
  /\ dbs[n] = "empty"
  /\ dbs' = [dbs EXCEPT ![n] = "tables"]
  /\ UNCHANGED <<proc, Served>>

\* No serving process.
NotBooted == [handles |-> 0, sync |-> "none", table |-> FALSE]

ScriptsInit ==
  /\ store = {}
  /\ autoInc = 1
  /\ conn = [s \in Slots |-> Idle]
  /\ req = [s \in Slots |-> [method |-> "", path |-> ""]]
  /\ boot = NotBooted
  /\ dbs = [n \in DbNames |-> "absent"]
  /\ proc = NoProc
  /\ suite = NoSuite

ScriptsNext ==
  \/ \E args \in Argvs, inherited \in Inherited : createDatabase(args, inherited)
  \/ \E args \in Argvs, inherited \in Inherited : dropDatabase(args, inherited)
  \/ createDatabaseQuery
  \/ dropDatabaseQuery
  \/ ConnectFails
  \/ createDatabaseCallback
  \/ dropDatabaseCallback
  \/ \E n \in DbNames : SyncTables(n)

SpecScripts == ScriptsInit /\ [][ScriptsNext]_vars

\* Where the script has got to; every step of a script moves it.
At == proc.at

\* A statement handed to mysql2 gets its callback called, with the result
\* or with the connection's error, and node runs that callback.
FairScripts ==
  /\ SpecScripts
  /\ WF_At(createDatabaseQuery \/ dropDatabaseQuery \/ ConnectFails)
  /\ WF_At(createDatabaseCallback)
  /\ WF_At(dropDatabaseCallback)

\* --------------------------------------------------------- process start
\* index.js requires the app, the app the controller, the controller
\* "../models": node runs models/index.js once and caches what it exports,
\* so setupDatabase() runs once.  It builds the Sequelize handle, defines
\* Reader on it and calls connection.sync({ alter: true }) without waiting
\* for the promise; app.listen follows and requests are served from then on.

\* The request sends a statement to the database (an update that sets no
\* column does not).
Queries(s) ==
  ~(conn[s].handler = "update" /\ (DOMAIN conn[s].body) \cap schema = {})

BootInit ==
  /\ store = {}
  /\ autoInc = 1
  /\ conn = [s \in Slots |-> Idle]
  /\ req = [s \in Slots |-> [method |-> "", path |-> ""]]
  /\ \E kept \in BOOLEAN :
       /\ boot = [handles |-> 1, sync |-> "running", table |-> kept]
       /\ dbs = [n \in DbNames |->
                   IF n # DotEnv[".env"] THEN "absent"
                   ELSE IF kept THEN "tables" ELSE "empty"]
  /\ proc = NoProc
  /\ suite = NoSuite

\* The sync has made (or altered) the Readers table.
syncDone ==
  /\ boot.sync = "running"
  /\ boot' = [boot EXCEPT !.sync = "done", !.table = TRUE]
  /\ dbs' = [dbs EXCEPT ![DotEnv[".env"]] = "tables"]
  /\ UNCHANGED <<store, autoInc, conn, req, proc, suite>>

\* The sync is rejected; nothing waits for its promise.
syncFails ==
  /\ boot.sync = "running"
  /\ boot' = [boot EXCEPT !.sync = "failed"]
  /\ UNCHANGED <<store, autoInc, conn, req, dbs, proc, suite>>

\* The statement names a table the database does not have yet.
NoSuchTable(s) ==
  /\ conn[s].phase = "pending" /\ Queries(s)
  /\ ~boot.table
  /\ conn' = [conn EXCEPT ![s] = Failed(conn[s].handler)]
  /\ UNCHANGED <<store, autoInc, req, env>>

\* The statement runs when its table is there.
HasTable(s) == boot.table \/ ~Queries(s)

BootNext ==
  \/ syncDone
  \/ syncFails
  \/ Tick
  \/ \E s \in Slots : TwoReceive(s)
  \/ \E s \in Slots : NoSuchTable(s)
  \/ \E s \in Slots : HasTable(s) /\ ExecCreate(s)
  \/ \E s \in Slots : HasTable(s) /\ ExecFindAll(s)
  \/ \E s \in Slots : HasTable(s) /\ ExecUpdate(s)
  \/ \E s \in Slots : HasTable(s) /\ ExecDestroy(s)
  \/ \E s \in Slots : StoreDown(s)
  \/ \E s \in Slots : createThen(s)
  \/ \E s \in Slots : listThen(s)
  \/ \E s \in Slots : updateThen(s)
  \/ \E s \in Slots : deleteReaderThen(s)

SpecBoot == BootInit /\ [][BootNext]_vars

\* -------------------------------------------------------- the test suite
\* tests/readers.test.js under mocha: before, then for every test the outer
\* beforeEach, the nested beforeEach of its describe block where it has one,
\* and the test, which sends one request to the app and waits for the
\* answer.  The suite and the app share the process and its Reader model.

\* An id no fixture has.
Missing == 345

\* How many errors the hooks catch and log in one run, at most.
MaxFaults == 1

\* The three readers of the nested beforeEach; readers[0] is the first.
Fixtures ==
  {[name |-> "Mia Corvere", email |-> "mia@redchurch.com"],
   [name |-> "Bilbo Baggins", email |-> "bilbo@bagend.com"],
   [name |-> "Rand al'Thor", email |-> "rand@tworivers.com"]}

FirstFixture == [name |-> "Mia Corvere", email |-> "mia@redchurch.com"]

\* The tests in the order mocha runs them: the request each sends, and
\* whether it sits inside "with readers in the database".
Tests ==
  << [nested |-> FALSE, method |-> "POST", path |-> "/readers", target |-> "none",
      body |-> [name |-> "Mia Corvere", email |-> "mia@redchurch.com"]],
     [nested |-> TRUE, method |-> "GET", path |-> "/readers", target |-> "none",
      body |-> <<>>],
     [nested |-> TRUE, method |-> "PATCH", path |-> "/readers/:id",
      target |-> "readers[0]", body |-> [name |-> "Lyra Silvertongue"]],
     [nested |-> TRUE, method |-> "PATCH", path |-> "/readers/:id",
      target |-> "readers[0]", body |-> [email |-> "lyra@jordancollege.ac.uk"]],
     [nested |-> TRUE, method |-> "PATCH", path |-> "/readers/:id",
      target |-> "missing", body |-> [name |-> "Harry Potter"]],
     [nested |-> TRUE, method |-> "DELETE", path |-> "/readers/:id",
      target |-> "readers[0]", body |-> <<>>],
     [nested |-> TRUE, method |-> "DELETE", path |-> "/readers/:id",
      target |-> "missing", body |-> <<>>] >>

TestsInit ==
  /\ store = {}
  /\ autoInc = 1
  /\ conn = [s \in Slots |-> Idle]
  /\ req = [s \in Slots |-> [method |-> "", path |-> ""]]
  /\ \E kept \in BOOLEAN :
       /\ boot = [handles |-> 1, sync |-> "running", table |-> kept]
       /\ dbs = [n \in DbNames |->
                   IF n # DotEnv[".env.test"] THEN "absent"
                   ELSE IF kept THEN "tables" ELSE "empty"]
  /\ proc = NoProc
  /\ suite = [NoSuite EXCEPT !.stage = "before"]

\* before: await Reader.sequelize.sync(), an error caught and logged.
before ==
  /\ suite.stage = "before"
  /\ \/ /\ boot' = Ready
        /\ dbs' = [dbs EXCEPT ![DotEnv[".env.test"]] = "tables"]
        /\ suite' = [suite EXCEPT !.stage = "beforeEach", !.test = 1]
     \/ /\ suite.logs < MaxFaults
        /\ boot' = [boot EXCEPT !.sync = "failed"]
        /\ dbs' = dbs
        /\ suite' = [suite EXCEPT !.stage = "beforeEach", !.test = 1,
                                  !.logs = @ + 1]
  /\ UNCHANGED <<store, autoInc, conn, req, proc>>

\* Where the hooks of a test lead: to its nested beforeEach or to the test.
AfterBeforeEach(k) == IF Tests[k].nested THEN "fixtures" ELSE "test"

\* Reader.destroy({ where: {} }): DELETE FROM Readers.
ReaderDestroyAll(st, ai) == Resolved({}, ai, Cardinality(st), {})

\* beforeEach: await Reader.destroy({ where: {} }), an error caught and
\* logged.  left keeps the rows the earlier tests had left behind.
beforeEach ==
  /\ suite.stage = "beforeEach"
  /\ \/ /\ boot.table
        /\ store' = ReaderDestroyAll(store, autoInc).store
        /\ suite' = [suite EXCEPT !.stage = AfterBeforeEach(suite.test),
                                  !.left = store, !.todo = Fixtures,
                                  !.first = 0]
     \/ /\ ~boot.table \/ suite.logs < MaxFaults
        /\ store' = store
        /\ suite' = [suite EXCEPT !.stage = AfterBeforeEach(suite.test),
                                  !.left = store, !.todo = Fixtures,
                                  !.first = 0, !.logs = @ + 1]
  /\ UNCHANGED <<autoInc, conn, req, boot, dbs, proc>>

\* The nested beforeEach: Promise.all of three Reader.create calls; the
\* INSERTs reach the server in any order.
fixtureCreate ==
  /\ suite.stage = "fixtures" /\ boot.table
  /\ \E f \in suite.todo :
       LET q == ReaderCreate(store, autoInc, f)
       IN /\ q.ok
          /\ store' = q.store
          /\ autoInc' = q.autoInc
          /\ suite' = [suite EXCEPT
               !.todo = @ \ {f},
               !.first = IF f = FirstFixture THEN q.rows.id ELSE @]
  /\ UNCHANGED <<conn, req, boot, dbs, proc>>

\* .then((documents) => { readers = documents; done(); })
fixturesDone ==
  /\ suite.stage = "fixtures" /\ suite.todo = {}
  /\ suite' = [suite EXCEPT !.stage = "test"]
  /\ UNCHANGED <<store, autoInc, conn, req, boot, dbs, proc>>

\* One of the creates is rejected: Promise.all is rejected, nothing catches
\* it and done is never called.  mocha fails the hook when it times out and
\* skips the tests of the block, which are all the tests that are left.
fixturesFail ==
  /\ suite.stage = "fixtures" /\ suite.todo # {}
  /\ suite' = [suite EXCEPT !.stage = "end"]
  /\ UNCHANGED <<store, autoInc, conn, req, boot, dbs, proc>>

\* The test begins: nothing of it has run yet.
TestStarts == suite.stage = "test" /\ conn[1].phase = "idle"

\* request(app).post / get / patch / delete: the test's one request.
testRequest ==
  /\ TestStarts
  /\ LET t == Tests[suite.test]
         id == IF t.target = "readers[0]" THEN suite.first ELSE Missing
     IN /\ Line(1, t.method, t.path)
        /\ CASE Route(t.method, t.path) = "create" -> create(1, t.body)
             [] Route(t.method, t.path) = "list" -> list(1)
             [] Route(t.method, t.path) = "update" -> update(1, id, t.body)
             [] Route(t.method, t.path) = "deleteReader" -> deleteReader(1, id)

\* The test is over: its expectations have run on the answer, or it has
\* timed out waiting for one.  mocha goes on to the next test's hooks.
testEnd ==
  /\ suite.stage = "test"
  /\ conn[1].phase \in {"responded", "rejected"}
  /\ conn' = [conn EXCEPT ![1] = Idle]
  /\ suite' = IF suite.test = Len(Tests)
                THEN [suite EXCEPT !.stage = "end"]
                ELSE [suite EXCEPT !.stage = "beforeEach", !.test = @ + 1]
  /\ UNCHANGED <<store, autoInc, req, boot, dbs, proc>>

TestsNext ==
  \/ before
  \/ beforeEach
  \/ fixtureCreate
  \/ fixturesDone
  \/ fixturesFail
  \/ testRequest
  \/ NoSuchTable(1)
  \/ HasTable(1) /\ ExecCreate(1)
  \/ HasTable(1) /\ ExecFindAll(1)
  \/ HasTable(1) /\ ExecUpdate(1)
  \/ HasTable(1) /\ ExecDestroy(1)
  \/ StoreDown(1)
  \/ createThen(1)
  \/ listThen(1)
  \/ updateThen(1)
  \/ deleteReaderThen(1)
  \/ testEnd

SpecTests == TestsInit /\ [][TestsNext]_vars

\* ------------------------------------------------------- claims: helpers
\* What a Reader is to a client: its id, name and email.
Persisted(st) == {[id |-> r.id, name |-> r.name, email |-> r.email] : r \in st}

\* This step, the store ran the query of handler h's request in slot s and
\* the promise resolved.
Ran(s, h) ==
  /\ conn[s].phase = "pending" /\ conn[s].handler = h
  /\ conn'[s].phase = "resolved"

\* This step, handler h's callback sent the response of the request in s.
Answers(s, h) ==
  /\ conn[s].phase = "resolved" /\ conn[s].handler = h
  /\ conn'[s].phase = "responded"

\* The request in slot s was for handler h and has been answered.
Answered(s, h) == conn[s].phase = "responded" /\ conn[s].handler = h

\* ---------------------------------------------------------------- claims
\* C1: PATCH /readers/{id} for an id no persisted Reader has, with any body,
\* leaves the persisted Readers as they were and is answered 404 with
\* {error: "The reader does not exist."}.
C1_UpdateMissing ==
  [][\A s \in Slots :
       /\ (Ran(s, "update") /\ ~Exists(store, conn[s].id))
            => /\ Persisted(store') = Persisted(store)
               /\ store' = store
               /\ conn'[s].found = FALSE
       /\ (Answers(s, "update") /\ ~conn[s].found)
            => /\ conn'[s].res.status = 404
               /\ conn'[s].res.body = NotFoundError]_vars

C1_Witness ==
  \E s \in Slots :
    /\ Answered(s, "update") /\ ~conn[s].found
    /\ DOMAIN conn[s].body = {"name", "email"}
    /\ conn[s].res.status = 404
    /\ store # {}

\* C2: DELETE /readers/{id} for an id no persisted Reader has leaves the
\* store as it was (so the id is still missing and a repeated DELETE meets
\* the same case) and is answered 404 with the fixed error body.
C2_DeleteMissing ==
  [][\A s \in Slots :
       /\ (Ran(s, "deleteReader") /\ ~Exists(store, conn[s].id))
            => /\ store' = store
               /\ ~Exists(store', conn[s].id)
               /\ conn'[s].found = FALSE
       /\ (Answers(s, "deleteReader") /\ ~conn[s].found)
            => /\ conn'[s].res.status = 404
               /\ conn'[s].res.body = NotFoundError]_vars

C2_Witness ==
  \E s \in Slots :
    /\ Answered(s, "deleteReader") /\ ~conn[s].found
    /\ conn[s].res.status = 404
    /\ ~Exists(store, conn[s].id)
    /\ store # {}

\* C3: DELETE /readers/{r.id} for a persisted Reader r removes r and nothing
\* else (a lookup of r.id then finds nothing, every other Reader is as it
\* was) and is answered 204.
C3_DeleteExisting ==
  [][\A s \in Slots :
       /\ (Ran(s, "deleteReader") /\ Exists(store, conn[s].id))
            => /\ FindByPk(store', conn[s].id) = null
               /\ store' = store \ {FindByPk(store, conn[s].id)}
               /\ Cardinality(store') = Cardinality(store) - 1
               /\ conn'[s].found = TRUE
       /\ (Answers(s, "deleteReader") /\ conn[s].found)
            => conn'[s].res.status = 204]_vars

C3_Witness ==
  \E s \in Slots :
    /\ Answered(s, "deleteReader") /\ conn[s].found
    /\ conn[s].res.status = 204
    /\ FindByPk(store, conn[s].id) = null
    /\ store # {}

C5_CreateResponse ==
  [][\A s \in Slots :
       /\ Ran(s, "create")
            => \E r \in store' :
                 /\ r \notin store
                 /\ store' = store \cup {r}
                 /\ r.id = conn'[s].value.id
       /\ Answers(s, "create")
            => /\ conn'[s].res.status = 201
               /\ conn'[s].res.body.kind = "object"
               /\ conn'[s].res.body.val.id = conn[s].value.id
               /\ Restrict(conn'[s].res.body.val, {"name", "email"})
                    = Restrict(conn[s].body, {"name", "email"})]_vars

C5_Witness ==
  \E s \in Slots :
    /\ Answered(s, "create")
    /\ conn[s].res.status = 201
    /\ "id" \notin DOMAIN conn[s].body
    /\ conn[s].res.body.val.id = MaxId
    /\ Exists(store, MaxId)

\* C6: GET /readers is answered 200 with exactly one record per persisted
\* Reader, each with that Reader's current id, name and email.
C6_ListComplete ==
  \A s \in Slots :
    Answered(s, "list")
      => /\ conn[s].res.status = 200
         /\ conn[s].res.body.kind = "array"
         /\ Cardinality(conn[s].res.body.val) = Cardinality(Persisted(store))
         /\ \A r \in store :
              Cardinality({x \in conn[s].res.body.val : x.id = r.id}) = 1
         /\ Persisted(conn[s].res.body.val) = Persisted(store)

C6_Witness ==
  \E s \in Slots :
    /\ Answered(s, "list")
    /\ Cardinality(conn[s].res.body.val) = MaxId
    /\ \E r \in store : r.name = NULL

\* C7 (as claimed): a PATCH of a persisted Reader with only a name (only an
\* email) sets that field, leaves the other as it was, and is answered 200.
C7_PartialUpdate ==
  [][\A s \in Slots :
       /\ (Ran(s, "update") /\ Exists(store, conn[s].id)
             /\ DOMAIN conn[s].body = {"name"})
            => /\ FindByPk(store', conn[s].id) # null
               /\ FindByPk(store', conn[s].id).name = conn[s].body.name
               /\ FindByPk(store', conn[s].id).email = FindByPk(store, conn[s].id).email
       /\ (Ran(s, "update") /\ Exists(store, conn[s].id)
             /\ DOMAIN conn[s].body = {"email"})
            => /\ FindByPk(store', conn[s].id) # null
               /\ FindByPk(store', conn[s].id).email = conn[s].body.email
               /\ FindByPk(store', conn[s].id).name = FindByPk(store, conn[s].id).name
       /\ (Answers(s, "update") /\ conn[s].found
             /\ DOMAIN conn[s].body \in {{"name"}, {"email"}})
            => conn'[s].res.status = 200]_vars

\* C8 (as claimed): a PATCH of a persisted Reader whose body is any subset of
\* {name, email} affects a row and is answered 200.
C8_UpdateFoundIs200 ==
  \A s \in Slots :
    (Answered(s, "update") /\ conn[s].found
       /\ DOMAIN conn[s].body \subseteq {"name", "email"})
      => /\ conn[s].value[1] # 0
         /\ conn[s].res.status = 200

\* C9: a PATCH answered 200 carries a one-element array holding the number
\* of rows updated, and that number is 1.
C9_UpdateCountIsOne ==
  \A s \in Slots :
    /\ (Answered(s, "update") /\ conn[s].res.status = 200)
         => /\ conn[s].res.body = JArray(<<1>>)
            /\ conn[s].value = <<1>>
    /\ (conn[s].phase = "resolved" /\ conn[s].handler = "update")
         => conn[s].value[1] \in {0, 1}

C9_Witness ==
  \E s \in Slots :
    /\ Answered(s, "update")
    /\ conn[s].res.status = 200
    /\ conn[s].res.body = JArray(<<1>>)
    /\ Cardinality(store) > 1

Bound ==
  {<<"POST", "/readers", "create">>, <<"GET", "/readers", "list">>,
   <<"PATCH", "/readers/:id", "update">>,
   <<"DELETE", "/readers/:id", "deleteReader">>}

IdsOf(st) == {r.id : r \in st}

\* C12 (as claimed): an update never changes the id of a Reader: the ids in
\* the store are the same after a PATCH as before it, whatever its body.
C12_IdNeverMutated ==
  [][\A s \in Slots :
       Ran(s, "update") => IdsOf(store') = IdsOf(store)]_vars

\* C14: every persisted Reader has an id (a positive integer) and no two
\* persisted Readers share an id.
C14_IdsUnique ==
  /\ \A r \in store : r.id \in Nat \ {0}
  /\ \A r1, r2 \in store : r1.id = r2.id => r1 = r2
  /\ Cardinality(IdsOf(store)) = Cardinality(store)

C14_Witness ==
  /\ Cardinality(store) = MaxId
  /\ \E s \in Slots :
       /\ conn[s].phase = "rejected" /\ conn[s].handler = "create"
       /\ autoInc > MaxId

\* C15: POST /readers with the name and email of a Reader that is already
\* persisted is not refused by the store: it adds one row with an id no
\* persisted Reader has, leaves every persisted row as it was, and is
\* answered 201.
C15_NoUniqueness ==
  \A s \in Slots :
    /\ (conn[s].phase = "pending" /\ conn[s].handler = "create"
          /\ DOMAIN conn[s].body = {"name", "email"}
          /\ autoInc <= MaxId
          /\ \E r \in store : r.name = conn[s].body.name
                              /\ r.email = conn[s].body.email)
         => LET q == ReaderCreate(store, autoInc, conn[s].body)
            IN /\ q.ok
               /\ store \subseteq q.store
               /\ Cardinality(q.store) = Cardinality(store) + 1
               /\ \A r \in q.store \ store :
                    /\ r.id \notin IdsOf(store)
                    /\ r.name = conn[s].body.name
                    /\ r.email = conn[s].body.email
    /\ Answered(s, "create") => conn[s].res.status = 201

C15_Witness ==
  \E s \in Slots :
    /\ Answered(s, "create") /\ conn[s].res.status = 201
    /\ DOMAIN conn[s].body = {"name", "email"}
    /\ \E r1, r2 \in store :
         /\ r1.id # r2.id /\ r2.id = conn[s].res.body.val.id
         /\ r1.name = r2.name /\ r1.email = r2.email
         /\ r2.name = conn[s].body.name /\ r2.email = conn[s].body.email

\* C16 (as claimed): when a request's query fails, the handler sends nothing
\* and the failure is handed to the framework's error path.
C16_FailureReachesFramework ==
  \A s \in Slots :
    conn[s].phase = "rejected"
      => /\ conn[s].responses = 0 /\ conn[s].res = NoRes
         /\ conn[s].fault = "expressErrorHandler"

\* C16 (amended): when a request's query fails, the handler sends nothing,
\* and the failure reaches neither the application nor the framework: it is
\* an unhandled promise rejection, and the request is left unanswered.
C16_FailureUnhandled ==
  \A s \in Slots :
    /\ conn[s].phase = "rejected"
         => /\ conn[s].responses = 0 /\ conn[s].res = NoRes
            /\ conn[s].fault = "unhandledRejection"
    /\ conn[s].fault # "none" => conn[s].phase = "rejected"

C16_Witness ==
  \E s \in Slots :
    /\ conn[s].phase = "rejected" /\ conn[s].handler = "deleteReader"
    /\ conn[s].res = NoRes
    /\ Exists(store, MaxId)

\* C17: a request to update or deleteReader asks one operation of the
\* Reader model, the mutating one, at every point of its life, and whether
\* it is answered 404 or success follows the count that operation returned.
C17_OneStorageOperation ==
  \A s \in Slots :
    /\ (conn[s].handler = "update" /\ conn[s].phase # "rejected")
         => /\ conn[s].calls = <<"Reader.update">>
            /\ conn[s].phase = "responded"
                 => /\ conn[s].res.status \in {200, 404}
                    /\ conn[s].res.status = 404 <=> conn[s].value[1] = 0
    /\ (conn[s].handler = "deleteReader" /\ conn[s].phase # "rejected")
         => /\ conn[s].calls = <<"Reader.destroy">>
            /\ conn[s].phase = "responded"
                 => /\ conn[s].res.status \in {204, 404}
                    /\ conn[s].res.status = 404 <=> conn[s].value = 0

C17_Witness ==
  \E s \in Slots :
    /\ Answered(s, "update") /\ conn[s].calls = <<"Reader.update">>
    /\ conn[s].found /\ conn[s].value = <<0>>
    /\ conn[s].res.status = 404

\* C20 (as claimed): the row a POST /readers adds has the id the store
\* generated (the AUTO_INCREMENT counter's), not one taken from the body.
C20_IdFromStore ==
  [][\A s \in Slots :
       Ran(s, "create")
         => \E r \in store' :
              /\ store' = store \cup {r}
              /\ r.id \notin IdsOf(store)
              /\ r.id = autoInc]_vars

\* C13 (as claimed): once DELETE /readers/{id} has been answered 204, no
\* persisted Reader ever has that id again, whatever later requests carry.
C13_IdNeverReused ==
  \A s \in Slots :
    (Answered(s, "deleteReader") /\ conn[s].res.status = 204)
      => ~Exists(store, conn[s].id)

\* The 2xx statuses.
Success == 200..299

\* C18 (as claimed): two requests on the id of the one persisted Reader,
\* served at the same time, are answered as if served one after the other:
\* of two DELETEs exactly one gets 204; a PATCH beside a DELETE gets 200
\* exactly when the store applied it while the Reader was still there; and
\* no update or delete that the store applied after the Reader was gone
\* gets a 2xx.
C18_ConcurrentSerial ==
  \A a, b \in Slots :
    (/\ a # b
     /\ conn[a].phase = "responded" /\ conn[b].phase = "responded"
     /\ conn[a].handler \in {"update", "deleteReader"}
     /\ conn[b].handler = "deleteReader"
     /\ conn[a].id = 1 /\ conn[b].id = 1)
      => /\ conn[a].handler = "deleteReader"
              => Cardinality({s \in {a, b} : conn[s].res.status = 204}) = 1
         /\ conn[a].handler = "update"
              => /\ conn[b].res.status \in Success
                 /\ conn[a].res.status = 200 <=> conn[a].found
         /\ \A s \in {a, b} :
              ~conn[s].found => conn[s].res.status \notin Success

\* C19: a request never gets more than one response, and every request
\* whose query has completed (its promise resolved) is eventually answered,
\* once.
C19_ExactlyOneResponse ==
  \A s \in Slots :
    /\ [](conn[s].responses <= 1)
    /\ [](conn[s].phase = "responded" => conn[s].responses = 1)
    /\ (conn[s].phase = "resolved")
         ~> (conn[s].phase = "responded" /\ conn[s].responses = 1)

C19_Witness ==
  /\ \A s \in Slots : conn[s].phase = "responded" /\ conn[s].responses = 1
  /\ \E a, b \in Slots :
       /\ conn[a].handler = "update" /\ conn[a].res.status = 200
       /\ conn[b].handler = "deleteReader" /\ conn[b].res.status = 204

\* C21: a PATCH /readers/{id} that succeeds (its count is not 0, it is
\* answered 200) leaves the number of persisted Readers as it was, and every
\* Reader with another id keeps its id, name and email.
C21_UpdateOnlyThatReader ==
  [][\A s \in Slots :
       /\ (Ran(s, "update") /\ conn'[s].value[1] # 0)
            => /\ Cardinality(store') = Cardinality(store)
               /\ \A r \in store :
                    r.id # conn[s].id
                      => [id |-> r.id, name |-> r.name, email |-> r.email]
                           \in Persisted(store')
       /\ Answers(s, "update")
            => /\ store' = store
               /\ conn'[s].res.status = 200 <=> conn[s].value[1] # 0]_vars

C21_Witness ==
  \E s \in Slots :
    /\ Answered(s, "update") /\ conn[s].res.status = 200
    /\ Cardinality(store) = 2
    /\ \E r \in store : r.id = conn[s].id /\ r.updatedAt = ThisSecond
    /\ \E r \in store : r.id # conn[s].id /\ r.updatedAt = Earlier

\* C22: GET /readers changes nothing in the store, neither when its query
\* runs nor when it is answered, so two list requests with nothing but list
\* requests beside them are given the same records.
C22_ListReadOnly ==
  [][/\ \A s \in Slots :
          (Ran(s, "list") \/ Answers(s, "list"))
            => /\ Persisted(store') = Persisted(store)
               /\ store' = store /\ autoInc' = autoInc
     /\ \A a, b \in Slots :
          (/\ conn'[a].handler = "list" /\ conn'[b].handler = "list"
           /\ conn'[a].phase \in {"resolved", "responded"}
           /\ conn'[b].phase \in {"resolved", "responded"})
            => Persisted(conn'[a].value) = Persisted(conn'[b].value)]_vars

C22_Witness ==
  /\ store # {}
  /\ \A s \in Slots :
       /\ Answered(s, "list") /\ conn[s].res.status = 200
       /\ Persisted(conn[s].value) = Persisted(store)

\* This step, the server ran the statement of the named script.
Statement(script) ==
  /\ proc.script = script /\ proc.at = "query"
  /\ proc'.at = "callback" /\ proc'.err # "ECONNREFUSED"

\* C24: the create-database script creates its database when the server
\* does not have it; when the server has it, the database and what it holds
\* stay as they are and the statement reports no error; no other database is
\* touched; and running the statement again changes nothing more.
C24_CreateIdempotent ==
  [][Statement("create-database")
       => LET name == proc.DB_NAME
          IN /\ proc'.err = "none"
             /\ dbs[name] = "absent" => dbs'[name] = "empty"
             /\ dbs[name] # "absent" => dbs'[name] = dbs[name]
             /\ \A n \in DbNames \ {name} : dbs'[n] = dbs[n]
             /\ CreateDatabaseIfNotExists(dbs', name).dbs = dbs'
             /\ CreateDatabaseIfNotExists(dbs', name).err = "none"]_vars

C24_Witness ==
  /\ proc.script = "create-database" /\ proc.at = "exited"
  /\ proc.err = "none" /\ proc.logs = <<>>
  /\ dbs[proc.DB_NAME] = "tables"

\* C25: when its statement fails the create-database script logs the hint,
\* the environment variables and the error, and does not throw; whether the
\* statement failed or not it closes its connection once; and it always
\* comes to its end.
C25_CreateFailureLogged ==
  /\ [](proc.script = "create-database"
          => /\ proc.closed <= 1
             /\ proc.exit \in {"running", "clean"}
             /\ proc.at = "exited"
                  => /\ proc.closed = 1 /\ proc.exit = "clean"
                     /\ proc.err # "none"
                          => proc.logs = <<"hint", "Environment Variables are:",
                                           proc.err>>
                     /\ proc.err = "none" => proc.logs = <<>>
             /\ proc.at # "exited" => proc.closed = 0)
  /\ (proc.script = "create-database" /\ proc.at = "query")
       ~> (proc.script = "create-database" /\ proc.at = "exited")

C25_Witness ==
  /\ proc.script = "create-database" /\ proc.at = "exited"
  /\ proc.err = "ECONNREFUSED" /\ Len(proc.logs) = 3
  /\ proc.closed = 1 /\ proc.exit = "clean"

\* C26: whether its DROP DATABASE succeeds or fails, the drop-database
\* script ignores the error (logs nothing, throws nothing), ends its
\* connection once, and comes to its end.
C26_DropBestEffort ==
  /\ [](proc.script = "drop-database"
          => /\ proc.closed <= 1
             /\ proc.exit \in {"running", "clean"}
             /\ proc.logs = <<>>
             /\ proc.at = "exited" => proc.closed = 1 /\ proc.exit = "clean"
             /\ proc.at # "exited" => proc.closed = 0)
  /\ (proc.script = "drop-database" /\ proc.at = "query")
       ~> (proc.script = "drop-database" /\ proc.at = "exited")

C26_Witness ==
  /\ proc.script = "drop-database" /\ proc.at = "exited"
  /\ proc.err = "ER_DB_DROP_EXISTS"
  /\ proc.closed = 1 /\ proc.exit = "clean"

\* C27 (as claimed): whatever its arguments, the database the drop-database
\* script drops is the DB_NAME of .env.test, never the DB_NAME of .env.
C27_DropsTestDatabaseOnly ==
  [][Statement("drop-database")
       => /\ proc.DB_NAME = DotEnv[".env.test"]
          /\ dbs'[DotEnv[".env"]] = dbs[DotEnv[".env"]]]_vars

\* C23 (as claimed): the process has one store handle, built at startup and
\* never again, and the handle's schema sync has finished by the time the
\* statement of any request runs.
C23_InitBeforeFirstRequest ==
  [][\A s \in Slots :
       (/\ conn[s].phase = "pending" /\ Queries(s)
        /\ conn'[s].phase \in {"resolved", "rejected"})
         => /\ boot.handles = 1 /\ boot'.handles = 1
            /\ boot.sync = "done"]_vars

\* C28 (as claimed): when a test of the /readers suite begins, the store
\* holds no Reader an earlier test left behind: it is empty, or, inside
\* "with readers in the database", it holds the three fixtures the nested
\* beforeEach has just inserted and nothing else.
C28_TestIsolation ==
  TestStarts
    => /\ store \cap suite.left = {}
       /\ IdsOf(store) \cap IdsOf(suite.left) = {}
       /\ ~Tests[suite.test].nested => store = {}
       /\ Tests[suite.test].nested
            => {[name |-> r.name, email |-> r.email] : r \in store} = Fixtures
               /\ Cardinality(store) = 3
====
